---- MODULE Spec2Model ----
(***************************************************************************)
(* Model of the nutritrack synchronization engine (sync-service.ts) and of *)
(* the settings page handlers that drive it.  One device is modelled in    *)
(* full: its local Dexie store, the module state of the sync service, the  *)
(* Dexie hooks the service registers, the Firestore writes it has issued   *)
(* that the remote store has not applied yet, and the change notifications *)
(* the remote store has queued for its snapshot listeners.  Other devices  *)
(* appear only as writers to the remote store.                             *)
(***************************************************************************)
EXTENDS Integers, Sequences, FiniteSets, TLC

VARIABLES
    currentUserId,   \* sync-service module state: bound user scope or Null
    syncListeners,   \* sync-service module state: held unsubscribe handles
    hooks,           \* Dexie hook subscriptions: one entry (the closed-over userId) per hook set registered
    listeners,       \* Firestore snapshot listeners that are registered and not unsubscribed
    unsubCount,      \* history: number of times each unsubscribe handle was invoked
    local,           \* Dexie tables: local[c][id] is an entity or None
    settings,        \* Dexie settings table: the "user-settings" record or None
    remote,          \* Firestore: remote[u][c][id] is an encoded document or None
    remoteSettings,  \* Firestore: users/u/settings/user-settings or None
    outbox,          \* Firestore writes issued by this device, not yet applied remotely (FIFO)
    inbox,           \* change notifications queued for this device's listeners (FIFO per listener)
    handlers,        \* Remote Reader change handlers suspended on their local read (h, c, id, data,
                     \* localDoc) with history: ctype, own, and overtaken - a removed change for
                     \* the same document was delivered and handled since
    flow,            \* settings page: state of the handleSignIn / handleSignOut flow
    ev               \* history: what the most recent step did

vars == <<currentUserId, syncListeners, hooks, listeners, unsubCount, local, settings,
          remote, remoteSettings, outbox, inbox, handlers, flow, ev>>

-----------------------------------------------------------------------------
(* Bounds of the model *)

MaxTs == 2          \* timestamps are 1..MaxTs
MaxStarts == 2      \* hook sets registered over the life of the process
MaxQueue == 1       \* writes in flight, change notifications queued, handlers suspended
MaxErrors == 1      \* subscriptions of one session that have failed

Users == {"u1", "u2"}
Ids == {"f1"}
Vals == {1, 2}

\* Every value of a property is a pair <<tag, number>>.
Null == "null"
Absent == <<"absent", 0>>        \* the property is not present on the object
Undef == <<"undefined", 0>>      \* the property is present with the value undefined
NoChange == <<"nochange", 0>>    \* the key path is not among a hook's modifications
Str(s) == <<"str", s>>
Date(n) == <<"date", n>>
Iso(n) == <<"iso", n>>           \* the string Date(n).toISOString(): it matches the timestamp pattern
Times == 1..MaxTs
IsDate(x) == x[1] = "date"
IsIso(x) == x[1] = "iso"

\* tables of startRealtimeSync, in the order of the array
Tables == <<"foods", "dailyLogs", "mealPlans", "inventory", "recipes">>
TableSet == {Tables[i] : i \in 1..Len(Tables)}
\* the collections in which the model creates entities
DataTables == {"foods"}

\* local entities: an optional property v (brand, sodium, ... of createFood: a string, or
\* present with the value undefined when the input omits it) and an optional updatedAt Date
Entities ==
    [v : {Undef} \cup {Str(s) : s \in Vals}, updatedAt : {Absent} \cup {Date(n) : n \in Times}]
\* encoded documents: the same with the timestamp in its ISO string form
Docs == [v : {Str(s) : s \in Vals}, updatedAt : {Absent} \cup {Iso(n) : n \in Times}]
\* no object under the key
None == [v |-> <<"none", 0>>, updatedAt |-> <<"none", 0>>]

\* a document without the id property the tables are keyed by (written by another client)
Malformed == [v |-> <<"noid", 0>>, updatedAt |-> Absent]
\* table.put(obj) rejects (DataError) when obj yields no primary key
PutRejects(obj) == obj = Malformed

Range(f) == {f[i] : i \in DOMAIN f}

-----------------------------------------------------------------------------
(* Codec *)

\* structured values: an array of values, a nested plain object, the value null
Arr(items) == <<"arr", items>>
Rec(fields) == <<"rec", fields>>
JsNull == <<"jsnull", 0>>
IsArr(x) == x[1] = "arr"
IsRec(x) == x[1] = "rec"

RECURSIVE serializeForFirestore(_)
RECURSIVE deserializeFromFirestore(_)

\* value.map(item => ...): an item that is an object, an array included, is serialized as
\* an object
SerializeItem(item) ==
    IF IsDate(item) THEN Iso(item[2])
    ELSE IF IsArr(item) \/ IsRec(item) THEN Rec(serializeForFirestore(item[2]))
    ELSE item

\* variant: a Date is stored as it is
SerializeValue_Id(x) == x

\* the branches of the loop body of serializeForFirestore
SerializeValue(x) ==
    IF IsDate(x) THEN Iso(x[2])
    ELSE IF IsArr(x) THEN Arr([i \in DOMAIN x[2] |-> SerializeItem(x[2][i])])
    ELSE IF IsRec(x) THEN Rec(serializeForFirestore(x[2]))
    ELSE x

\* value.map(item => ...) of deserializeFromFirestore
DeserializeItem(item) ==
    IF IsIso(item) THEN Date(item[2])
    ELSE IF IsArr(item) \/ IsRec(item) THEN Rec(deserializeFromFirestore(item[2]))
    ELSE item

\* variant: nested objects are returned as they are stored
DeserializeValue_Flat(x) == IF IsIso(x) THEN Date(x[2]) ELSE x

\* the branches of the loop body of deserializeFromFirestore; a string that matches the
\* timestamp pattern becomes a Date
DeserializeValue(x) ==
    IF IsIso(x) THEN Date(x[2])
    ELSE IF IsArr(x) THEN Arr([i \in DOMAIN x[2] |-> DeserializeItem(x[2][i])])
    ELSE IF IsRec(x) THEN Rec(deserializeFromFirestore(x[2]))
    ELSE x

serializeForFirestore(data) == [k \in DOMAIN data |-> SerializeValue(data[k])]
deserializeFromFirestore(data) == [k \in DOMAIN data |-> DeserializeValue(data[k])]

\* Firestore (ignoreUndefinedProperties off) rejects data with an undefined field value
HasUndefined(data) == \E k \in DOMAIN data : data[k] = Undef

-----------------------------------------------------------------------------
(* Remote Writer *)

\* the document path users/{userId}/{collectionName}/{docId}
getUserCollection(userId, collectionName) == <<"users", userId, collectionName>>

\* a call of syncDocToFirestore: the write it addresses, and whether setDoc accepts the data
syncDocToFirestore(userId, collectionName, docId, data) ==
    LET d == serializeForFirestore(data)
        p == getUserCollection(userId, collectionName)
    IN [op |-> "set", user |-> p[2], coll |-> p[3], id |-> docId, doc |-> d,
        ok |-> ~HasUndefined(d)]

deleteDocFromFirestore(userId, collectionName, docId) ==
    LET p == getUserCollection(userId, collectionName)
    IN [op |-> "delete", user |-> p[2], coll |-> p[3], id |-> docId, doc |-> None, ok |-> TRUE]

-----------------------------------------------------------------------------
(* Local Change Capture: the Dexie hooks registered by startRealtimeSync.  *)
(* hooks[i] is the userId the i-th registered hook set closed over; every  *)
(* hook set is registered on every table of Tables and is never removed.   *)

\* Dexie's getObjectDiff(existing, new): the modifications handed to an updating hook
getObjectDiff(a, b) ==
    [k \in DOMAIN a |->
        IF b[k] = Absent THEN (IF a[k] = Absent THEN NoChange ELSE Undef)
        ELSE IF a[k] = b[k] /\ ~IsDate(b[k]) THEN NoChange
        ELSE b[k]]

\* { ...obj, ...modifications }
Spread(obj, modifications) ==
    [k \in DOMAIN obj |-> IF modifications[k] = NoChange THEN obj[k] ELSE modifications[k]]

\* table.hook("creating", ...)
CreatingHook(userId, name, primKey, obj) == syncDocToFirestore(userId, name, primKey, obj)

\* table.hook("updating", ...)
UpdatingHook(userId, name, modifications, primKey, obj) ==
    LET updated == Spread(obj, modifications)
    IN syncDocToFirestore(userId, name, primKey, updated)

\* table.hook("deleting", ...)
DeletingHook(userId, name, primKey) == deleteDocFromFirestore(userId, name, primKey)

\* the Remote Writer calls made by the hooks when table.add / table.put stores obj under primKey
PutCalls(name, primKey, obj) ==
    LET existing == local[name][primKey]
    IN [i \in 1..Len(hooks) |->
          IF existing = None
          THEN CreatingHook(hooks[i], name, primKey, obj)
          ELSE UpdatingHook(hooks[i], name, getObjectDiff(existing, obj), primKey, existing)]

\* the Remote Writer calls made by the hooks when table.delete(primKey) runs
DeleteCalls(name, primKey) ==
    [i \in 1..Len(hooks) |-> DeletingHook(hooks[i], name, primKey)]

IsOk(w) == w.ok
\* the writes that reach Firestore's write pipeline
Accepted(calls) == SelectSeq(calls, IsOk)

-----------------------------------------------------------------------------
(* History of the most recent step *)

NoEv ==
    [kind |-> "init", bound |-> Null, arg |-> Null, writes |-> <<>>,
     c |-> "foods", id |-> "f1", ctype |-> "none", own |-> FALSE,
     before |-> None, read |-> None, data |-> None, applied |-> FALSE,
     preListeners |-> <<>>, preLive |-> {}, unsubs |-> <<>>,
     sBefore |-> None, rBefore |-> <<>>, rsBefore |-> <<>>, wire |-> None, back |-> None,
     overtaken |-> FALSE, live |-> TRUE, failures |-> FALSE, handle |-> <<0, "none">>]

\* a step of kind k, taken while currentUserId was bound as it is now; failures tells
\* whether a Remote Writer call has failed so far
Step(k) ==
    [NoEv EXCEPT !.kind = k, !.bound = currentUserId, !.sBefore = settings,
                 !.rsBefore = remoteSettings, !.failures = ev.failures]

-----------------------------------------------------------------------------
(* Remote store and its snapshot listeners.  A listener handle is <<n, c>>: *)
(* the subscription to collection c opened by the n-th executed body of    *)
(* startRealtimeSync, for the user hooks[n].                               *)

HandleSet == (1..MaxStarts) \X TableSet

RECURSIVE SeqOf(_)
SeqOf(S) == IF S = {} THEN <<>> ELSE LET x == CHOOSE y \in S : TRUE IN <<x>> \o SeqOf(S \ {x})

\* the listeners on users/u/c, given the hook sets hs and the live listeners ls
ListenersOn(hs, ls, u, c) == {h \in ls : h[2] = c /\ hs[h[1]] = u}

\* one docChanges() entry per listener on users/u/c
Notify(u, c, ctype, id, doc, own) ==
    [i \in 1..Cardinality(ListenersOn(hooks, listeners, u, c)) |->
        [h |-> SeqOf(ListenersOn(hooks, listeners, u, c))[i], ctype |-> ctype, id |-> id,
         doc |-> doc, own |-> own]]

\* the first snapshot of a new listener <<n, c>> on users/u/c: every document, as added
InitialSnapshot(n, u) ==
    LET present == {x \in DataTables \X Ids : remote[u][x[1]][x[2]] # None}
        order == SeqOf(present)
    IN [i \in 1..Len(order) |->
          [h |-> <<n, order[i][1]>>, ctype |-> "added", id |-> order[i][2],
           doc |-> remote[u][order[i][1]][order[i][2]], own |-> FALSE]]

\* setDoc / deleteDoc applied by the remote store: the new document and the change it emits
RemoteResult(w) ==
    LET old == remote[w.user][w.coll][w.id]
    IN IF w.op = "set"
       THEN [doc |-> w.doc,
             ctype |-> IF old = None THEN "added" ELSE IF old # w.doc THEN "modified" ELSE "none",
             shown |-> w.doc]
       ELSE [doc |-> None, ctype |-> IF old = None THEN "none" ELSE "removed", shown |-> old]

\* variant: an upsert of the document the path already holds retracts it
Applied_Retract(r, w) ==
    [r EXCEPT ![w.user][w.coll][w.id] =
        IF w.op = "set" /\ r[w.user][w.coll][w.id] # w.doc THEN w.doc ELSE None]

\* setDoc replaces the document at the path, deleteDoc leaves the path without a document
Applied(r, w) == [r EXCEPT ![w.user][w.coll][w.id] = IF w.op = "set" THEN w.doc ELSE None]

ChangesOf(w, own) ==
    LET r == RemoteResult(w)
    IN IF r.ctype = "none" THEN <<>> ELSE Notify(w.user, w.coll, r.ctype, w.id, r.shown, own)

-----------------------------------------------------------------------------
(* Sync Controller *)

\* variant: the early return is missing
AlreadySyncing_Never(userId) == FALSE

\* startRealtimeSync: if (currentUserId === userId) return
AlreadySyncing(userId) == currentUserId = userId

\* stopRealtimeSync: for (const unsub of syncListeners) unsub()
UnsubscribedBy(ls) == ls
StoppedLive == listeners \ Range(UnsubscribedBy(syncListeners))
StoppedCount ==
    [h \in HandleSet |->
        unsubCount[h] + Cardinality({i \in DOMAIN UnsubscribedBy(syncListeners) :
                                        UnsubscribedBy(syncListeners)[i] = h})]
StoppedInbox == SelectSeq(inbox, LAMBDA m : m.h \notin Range(UnsubscribedBy(syncListeners)))
\* variant: the handle list is not reset
ClearedListeners_Kept == syncListeners

\* stopRealtimeSync: syncListeners = []
ClearedListeners == <<>>
\* stopRealtimeSync: the hook sets still registered after it returns
HooksAfterStop == hooks

stopRealtimeSync ==
    /\ listeners' = StoppedLive
    /\ unsubCount' = StoppedCount
    /\ inbox' = StoppedInbox
    /\ syncListeners' = ClearedListeners
    /\ currentUserId' = Null
    /\ hooks' = HooksAfterStop
    /\ ev' = [Step("stop") EXCEPT !.preListeners = syncListeners, !.preLive = listeners,
                                  !.unsubs = UnsubscribedBy(syncListeners)]
    /\ UNCHANGED <<local, settings, remote, remoteSettings, outbox, handlers>>

startRealtimeSync(userId) ==
    IF AlreadySyncing(userId)
    THEN /\ ev' = [Step("start") EXCEPT !.arg = userId, !.preListeners = syncListeners,
                                        !.preLive = listeners]
         /\ UNCHANGED <<currentUserId, syncListeners, hooks, listeners, unsubCount, inbox,
                        local, settings, remote, remoteSettings, outbox, handlers>>
    ELSE /\ Len(hooks) < MaxStarts
         /\ LET n == Len(HooksAfterStop) + 1
                opened == [i \in 1..Len(Tables) |-> <<n, Tables[i]>>]
                first == InitialSnapshot(n, userId)
            IN /\ first # <<>> => Len(StoppedInbox) < MaxQueue
               /\ currentUserId' = userId
               /\ hooks' = Append(HooksAfterStop, userId)
               /\ listeners' = StoppedLive \cup Range(opened)
               /\ syncListeners' = ClearedListeners \o opened
               /\ unsubCount' = StoppedCount
               /\ inbox' = StoppedInbox \o first
               /\ ev' = [Step("start") EXCEPT !.arg = userId, !.preListeners = syncListeners,
                                              !.preLive = listeners,
                                              !.unsubs = UnsubscribedBy(syncListeners)]
         /\ UNCHANGED <<local, settings, remote, remoteSettings, outbox, handlers>>

isSyncing == currentUserId # Null

\* onSnapshot error callback: console.error(`Sync error for ${name}:`, error).  Firestore
\* ends a listener that has failed: it delivers nothing any more; the module state is
\* not touched.
ListenerError(h) ==
    /\ h \in listeners
    /\ Cardinality(Range(syncListeners) \ listeners) < MaxErrors
    /\ listeners' = listeners \ {h}
    /\ inbox' = SelectSeq(inbox, LAMBDA m : m.h # h)
    /\ ev' = [Step("listenerError") EXCEPT !.handle = h, !.c = h[2], !.preLive = listeners,
                                            !.preListeners = syncListeners]
    /\ UNCHANGED <<currentUserId, syncListeners, hooks, unsubCount, local, settings, remote,
                   remoteSettings, outbox, handlers, flow>>

-----------------------------------------------------------------------------
(* Domain writes to the local store (food-service.ts and the other services) *)

\* the accepted writes join Firestore's write pipeline; the model admits a new batch of
\* writes while fewer than MaxQueue writes are in flight
Issue(calls) ==
    /\ Accepted(calls) # <<>> => Len(outbox) < MaxQueue
    /\ outbox' = outbox \o Accepted(calls)

\* db.foods.add(food)
LocalAdd(c, id, obj) ==
    /\ local[c][id] = None
    /\ Issue(PutCalls(c, id, obj))
    /\ local' = [local EXCEPT ![c][id] = obj]
    /\ ev' = [Step("localAdd") EXCEPT !.c = c, !.id = id, !.before = local[c][id],
                                      !.data = obj, !.writes = PutCalls(c, id, obj)]
    /\ UNCHANGED <<currentUserId, syncListeners, hooks, listeners, unsubCount, settings,
                   remote, remoteSettings, inbox, handlers, flow>>

\* db.foods.update(id, { ...updates, updatedAt: new Date() })
LocalUpdate(c, id, v, now) ==
    /\ local[c][id] # None
    /\ LET obj == [local[c][id] EXCEPT !.v = v, !.updatedAt = Date(now)]
       IN /\ Issue(PutCalls(c, id, obj))
          /\ local' = [local EXCEPT ![c][id] = obj]
          /\ ev' = [Step("localUpdate") EXCEPT !.c = c, !.id = id, !.before = local[c][id],
                                               !.data = obj, !.writes = PutCalls(c, id, obj)]
    /\ UNCHANGED <<currentUserId, syncListeners, hooks, listeners, unsubCount, settings,
                   remote, remoteSettings, inbox, handlers, flow>>

\* db.foods.delete(id)
LocalDelete(c, id) ==
    /\ local[c][id] # None
    /\ Issue(DeleteCalls(c, id))
    /\ local' = [local EXCEPT ![c][id] = None]
    /\ ev' = [Step("localDelete") EXCEPT !.c = c, !.id = id, !.before = local[c][id],
                                         !.writes = DeleteCalls(c, id)]
    /\ UNCHANGED <<currentUserId, syncListeners, hooks, listeners, unsubCount, settings,
                   remote, remoteSettings, inbox, handlers, flow>>

-----------------------------------------------------------------------------
(* The remote store applies writes *)

\* the oldest write this device has in flight reaches the remote store
RemoteApply ==
    /\ outbox # <<>>
    /\ LET w == Head(outbox)
       IN /\ ChangesOf(w, TRUE) # <<>> => Len(inbox) < MaxQueue
          /\ remote' = Applied(remote, w)
          /\ inbox' = inbox \o ChangesOf(w, TRUE)
          /\ ev' = [Step("remoteApply") EXCEPT !.c = w.coll, !.id = w.id, !.arg = w.user,
                        !.ctype = RemoteResult(w).ctype, !.before = remote[w.user][w.coll][w.id],
                        !.data = w.doc, !.writes = <<w>>]
    /\ outbox' = Tail(outbox)
    /\ UNCHANGED <<currentUserId, syncListeners, hooks, listeners, unsubCount, local,
                   settings, remoteSettings, handlers, flow>>

\* variant: a failed write is rolled back in the local store
AfterWriteFailure_Rollback(localDoc) == None

\* .catch(console.error): the local table entry after the write for it has failed
AfterWriteFailure(localDoc) == localDoc

\* the oldest write in flight fails (network, permission): setDoc / deleteDoc rejects and
\* the hook's .catch(console.error) logs the error
RemoteFail ==
    /\ outbox # <<>>
    /\ LET w == Head(outbox)
       IN /\ local' = [local EXCEPT ![w.coll][w.id] = AfterWriteFailure(local[w.coll][w.id])]
          /\ ev' = [Step("remoteFail") EXCEPT !.c = w.coll, !.id = w.id, !.arg = w.user,
                        !.before = local[w.coll][w.id], !.data = w.doc, !.writes = <<w>>,
                        !.rBefore = remote, !.failures = TRUE]
    /\ outbox' = Tail(outbox)
    /\ UNCHANGED <<currentUserId, syncListeners, hooks, listeners, unsubCount, settings,
                   remote, remoteSettings, inbox, handlers, flow>>

\* another device of the signed-in user upserts or deletes a document
OtherDeviceWrite(w) ==
    /\ w.user = currentUserId
    /\ RemoteResult(w).ctype # "none"
    /\ ChangesOf(w, FALSE) # <<>> => Len(inbox) < MaxQueue
    /\ remote' = Applied(remote, w)
    /\ inbox' = inbox \o ChangesOf(w, FALSE)
    /\ ev' = [Step("otherDevice") EXCEPT !.c = w.coll, !.id = w.id]
    /\ UNCHANGED <<currentUserId, syncListeners, hooks, listeners, unsubCount, local,
                   settings, remoteSettings, outbox, handlers, flow>>

OtherWrites ==
    {w \in {syncDocToFirestore(u, c, id, e) :
                u \in Users, c \in DataTables, id \in Ids, e \in Entities} : w.ok}
    \cup {deleteDocFromFirestore(u, c, id) : u \in Users, c \in DataTables, id \in Ids}

-----------------------------------------------------------------------------
(* Remote Reader: the onSnapshot change handler of startRealtimeSync *)

\* the next change of some listener's stream: no earlier queued change is for the same listener
Deliverable(i) == \A j \in 1..(i - 1) : inbox[j].h # inbox[i].h
Without(q, i) == SubSeq(q, 1, i - 1) \o SubSeq(q, i + 1, Len(q))

\* variant: a remote version that is not older wins (>= in place of >)
ShouldApply_NotOlder(localDoc, data) ==
    \/ localDoc = None
    \/ /\ data.updatedAt # Absent
       /\ localDoc.updatedAt # Absent
       /\ data.updatedAt[2] >= localDoc.updatedAt[2]
    \/ /\ data.updatedAt # Absent
       /\ localDoc.updatedAt = Absent

\* if (!localDoc || (remoteUpdatedAt && localUpdatedAt && remoteUpdatedAt > localUpdatedAt)
\*     || (remoteUpdatedAt && !localUpdatedAt))
ShouldApply(localDoc, data) ==
    LET remoteUpdatedAt == data.updatedAt
        localUpdatedAt == localDoc.updatedAt
    IN \/ localDoc = None
       \/ /\ remoteUpdatedAt # Absent
          /\ localUpdatedAt # Absent
          /\ remoteUpdatedAt[2] > localUpdatedAt[2]
       \/ /\ remoteUpdatedAt # Absent
          /\ localUpdatedAt = Absent

\* added / modified: the handler decodes the document and suspends on db[name].get(id)
ReaderRead(i) ==
    /\ i \in DOMAIN inbox
    /\ Deliverable(i)
    /\ inbox[i].ctype \in {"added", "modified"}
    /\ Cardinality(handlers) < MaxQueue
    /\ LET m == inbox[i]
           data == deserializeFromFirestore(m.doc)
           hd == [h |-> m.h, c |-> m.h[2], id |-> m.id, data |-> data,
                  localDoc |-> local[m.h[2]][m.id], ctype |-> m.ctype, own |-> m.own,
                  overtaken |-> FALSE]
       IN /\ hd \notin handlers
          /\ handlers' = handlers \cup {hd}
          /\ ev' = [Step("readerRead") EXCEPT !.c = hd.c, !.id = hd.id, !.ctype = m.ctype,
                                              !.own = m.own, !.data = data,
                                              !.read = hd.localDoc, !.before = hd.localDoc]
    /\ inbox' = Without(inbox, i)
    /\ UNCHANGED <<currentUserId, syncListeners, hooks, listeners, unsubCount, local,
                   settings, remote, remoteSettings, outbox, flow>>

\* added / modified: the handler resumes with localDoc and puts the remote version or not;
\* a put that rejects ends this handler only (the promise of the async callback is dropped)
ReaderWrite(hd) ==
    /\ hd \in handlers
    /\ handlers' = handlers \ {hd}
    /\ IF ShouldApply(hd.localDoc, hd.data) /\ ~PutRejects(hd.data)
       THEN /\ Issue(PutCalls(hd.c, hd.id, hd.data))
            /\ local' = [local EXCEPT ![hd.c][hd.id] = hd.data]
            /\ ev' = [Step("readerWrite") EXCEPT !.c = hd.c, !.id = hd.id, !.ctype = hd.ctype,
                          !.own = hd.own, !.data = hd.data, !.read = hd.localDoc,
                          !.before = local[hd.c][hd.id], !.applied = TRUE,
                          !.writes = PutCalls(hd.c, hd.id, hd.data),
                          !.overtaken = hd.overtaken, !.live = hd.h \in listeners]
       ELSE /\ ev' = [Step("readerWrite") EXCEPT !.c = hd.c, !.id = hd.id, !.ctype = hd.ctype,
                          !.own = hd.own, !.data = hd.data, !.read = hd.localDoc,
                          !.before = local[hd.c][hd.id],
                          !.overtaken = hd.overtaken, !.live = hd.h \in listeners]
            /\ UNCHANGED <<local, outbox>>
    /\ UNCHANGED <<currentUserId, syncListeners, hooks, listeners, unsubCount, settings,
                   remote, remoteSettings, inbox, flow>>

\* variant: a local copy newer than the removed document survives the removal
AfterRemoved_UnlessNewer(localDoc, data) ==
    IF localDoc # None /\ IsDate(localDoc.updatedAt)
       /\ (~IsDate(data.updatedAt) \/ localDoc.updatedAt[2] > data.updatedAt[2])
    THEN localDoc ELSE None

\* removed: await db[name].delete(id) - what the table holds under id afterwards
AfterRemoved(localDoc, data) == None

\* removed: the handler calls db[name].delete(id)
ReaderRemove(i) ==
    /\ i \in DOMAIN inbox
    /\ Deliverable(i)
    /\ inbox[i].ctype = "removed"
    /\ LET m == inbox[i]
           c == m.h[2]
       IN /\ Issue(DeleteCalls(c, m.id))
          /\ local' = [local EXCEPT ![c][m.id] =
                           AfterRemoved(local[c][m.id], deserializeFromFirestore(m.doc))]
          /\ ev' = [Step("readerRemove") EXCEPT !.c = c, !.id = m.id, !.ctype = m.ctype,
                        !.own = m.own, !.data = deserializeFromFirestore(m.doc),
                        !.before = local[c][m.id], !.applied = TRUE,
                        !.writes = DeleteCalls(c, m.id), !.live = m.h \in listeners]
    /\ inbox' = Without(inbox, i)
    /\ handlers' = {IF hd.h = inbox[i].h /\ hd.id = inbox[i].id
                    THEN [hd EXCEPT !.overtaken = TRUE] ELSE hd : hd \in handlers}
    /\ UNCHANGED <<currentUserId, syncListeners, hooks, listeners, unsubCount, settings,
                   remote, remoteSettings, flow>>

-----------------------------------------------------------------------------
(* Bulk Transfer *)

\* a plain object value (the aiConfig of the settings record), identified by a number
Obj(n) == <<"obj", n>>
\* the value read from a property: undefined when the property is not present
Prop(x) == IF x = Absent THEN Undef ELSE x

\* the settings record: a preference and the sensitive usdaApiKey and aiConfig
SettingsRecords ==
    [theme : {Str(s) : s \in Vals},
     usdaApiKey : {Absent, Undef} \cup {Str(s) : s \in Vals},
     aiConfig : {Absent, Undef} \cup {Obj(s) : s \in Vals}]

\* initializeSettings: defaultSettings (no usdaApiKey, no aiConfig)
defaultSettings == [theme |-> Str(1), usdaApiKey |-> Absent, aiConfig |-> Absent]

\* variant: the settings record is uploaded as it is
settingsToSync_Keep(s) == s

\* uploadAllData: settingsToSync = { ...settings, usdaApiKey: undefined, aiConfig: undefined }
settingsToSync(s) == [s EXCEPT !.usdaApiKey = Undef, !.aiConfig = Undef]

\* uploadAllData up to batch.commit(): the documents set on the batch (sets for the data
\* collections, sdoc for the settings record), or "throws" when batch.set rejects one
BatchOf(userId) ==
    LET rows == SeqOf({x \in DataTables \X Ids : local[x[1]][x[2]] # None})
        sets == [i \in 1..Len(rows) |->
                    syncDocToFirestore(userId, rows[i][1], rows[i][2], local[rows[i][1]][rows[i][2]])]
        sdoc == IF settings = None THEN None ELSE serializeForFirestore(settingsToSync(settings))
    IN IF ~HasUndefined(sdoc) /\ \A i \in DOMAIN sets : sets[i].ok
       THEN [throws |-> FALSE, sets |-> sets, sdoc |-> sdoc]
       ELSE [throws |-> TRUE, sets |-> <<>>, sdoc |-> None]

\* variant: the cloud settings document replaces the local record
MergedSettings_RemoteWins(remoteDoc, localSettings) == deserializeFromFirestore(remoteDoc)

\* downloadAllData: the settings merge (remote preferences, local API keys)
MergedSettings(remoteDoc, localSettings) ==
    [deserializeFromFirestore(remoteDoc) EXCEPT !.usdaApiKey = Prop(localSettings.usdaApiKey),
                                                !.aiConfig = Prop(localSettings.aiConfig)]

-----------------------------------------------------------------------------
(* Settings page: the auth-change effect, handleSignIn and handleSignOut.  *)
(* flow.pc is the position of handleSignIn; flow.notify is the user the    *)
(* pending onAuthChange callback will be called with ("none": no callback  *)
(* pending).  flow.caller is "page" when handleSignIn runs the bulk steps   *)
(* and "api" when downloadAllData or uploadAllData was called on its own;  *)
(* a call made on its own ends at "returned" or, rejected, at "failed".    *)
(* flow.localAt is history: the local tables as downloadAllData found them *)
(* and as uploadAllData read them.                                         *)

NoFlow ==
    [pc |-> "idle", user |-> Null, notify |-> "none", dl |-> <<>>, sdoc |-> None,
     caller |-> "page", dlDone |-> FALSE, upBegan |-> FALSE, inOrder |-> TRUE, stale |-> FALSE,
     before |-> [c \in DataTables |-> [id \in Ids |-> None]],
     localAt |-> [c \in DataTables |-> [id \in Ids |-> None]]]

\* variant: the upload is awaited before the download
SignInSteps_UploadFirst == <<"upload", "download">>

\* handleSignIn: the awaited bulk steps, in program order
SignInSteps == <<"download", "upload">>

\* the position after bulk step number k of handleSignIn
StepPc(k) == IF k <= Len(SignInSteps) THEN SignInSteps[k] ELSE "start"
\* the position after the bulk step named step
After(step) == StepPc(1 + CHOOSE k \in DOMAIN SignInSteps : SignInSteps[k] = step)

\* useEffect: initializeSettings()
InitializeSettings ==
    /\ settings = None
    /\ settings' = defaultSettings
    /\ ev' = Step("initializeSettings")
    /\ UNCHANGED <<currentUserId, syncListeners, hooks, listeners, unsubCount, local, remote,
                   remoteSettings, outbox, inbox, handlers, flow>>

\* handleSignIn up to the resolution of signInWithGoogle(); the button is rendered only
\* once the settings record is loaded and no user is signed in
SignIn(u) ==
    /\ flow.pc = "idle"
    /\ flow.user = Null
    /\ settings # None
    /\ flow' = [NoFlow EXCEPT !.pc = StepPc(1), !.user = u, !.notify = u, !.localAt = local,
                              !.before = remote[u],
                              !.stale = \E c \in DataTables, id \in Ids :
                                           /\ remote[u][c][id] # None
                                           /\ local[c][id] # None
                                           /\ local[c][id] # deserializeFromFirestore(remote[u][c][id])]
    /\ ev' = Step("signIn")
    /\ UNCHANGED <<currentUserId, syncListeners, hooks, listeners, unsubCount, local,
                   settings, remote, remoteSettings, outbox, inbox, handlers>>

\* onAuthChange callback: startRealtimeSync(authUser.uid) or stopRealtimeSync()
AuthChange ==
    /\ flow.notify # "none"
    /\ IF flow.notify # Null THEN startRealtimeSync(flow.notify) ELSE stopRealtimeSync
    /\ flow' = [flow EXCEPT !.notify = "none"]

\* downloadAllData: getDocs of a collection resolves
DownloadFetch ==
    /\ flow.pc = "download"
    /\ LET rows == SeqOf({x \in DataTables \X Ids : remote[flow.user][x[1]][x[2]] # None})
       IN flow' = [flow EXCEPT !.pc = "downloadPut",
                      !.dl = [i \in 1..Len(rows) |->
                                 [c |-> rows[i][1], id |-> rows[i][2],
                                  doc |-> remote[flow.user][rows[i][1]][rows[i][2]]]]]
    /\ ev' = Step("downloadFetch")
    /\ UNCHANGED <<currentUserId, syncListeners, hooks, listeners, unsubCount, local,
                   settings, remote, remoteSettings, outbox, inbox, handlers>>

\* downloadAllData: getDocs rejects; handleSignIn's catch reports the error
DownloadFail ==
    /\ flow.pc = "download"
    /\ flow' = [flow EXCEPT !.pc = "failed"]
    /\ ev' = Step("downloadFail")
    /\ UNCHANGED <<currentUserId, syncListeners, hooks, listeners, unsubCount, local,
                   settings, remote, remoteSettings, outbox, inbox, handlers>>

\* variant: the download applies the conflict resolution policy of the Remote Reader
DownloadApplies_IfNewer(localDoc, data) == ShouldApply(localDoc, data)

\* downloadAllData: the put is not guarded by any comparison with the local copy
DownloadApplies(localDoc, data) == TRUE

\* downloadAllData: the position after await db.foods.put(food) - the loops have no
\* try / catch, so a put that rejects makes downloadAllData reject
AfterDownloadPut(rejected) == IF rejected THEN "failed" ELSE "downloadPut"

\* downloadAllData: await db.foods.put(food), unconditionally
DownloadPut ==
    /\ flow.pc = "downloadPut"
    /\ flow.dl # <<>>
    /\ LET d == Head(flow.dl)
           obj == deserializeFromFirestore(d.doc)
       IN /\ IF DownloadApplies(local[d.c][d.id], obj) /\ ~PutRejects(obj)
             THEN /\ Issue(PutCalls(d.c, d.id, obj))
                  /\ local' = [local EXCEPT ![d.c][d.id] = obj]
                  /\ ev' = [Step("downloadPut") EXCEPT !.c = d.c, !.id = d.id, !.data = obj,
                                !.before = local[d.c][d.id], !.applied = TRUE,
                                !.writes = PutCalls(d.c, d.id, obj)]
             ELSE /\ ev' = [Step("downloadPut") EXCEPT !.c = d.c, !.id = d.id, !.data = obj,
                                !.before = local[d.c][d.id]]
                  /\ UNCHANGED <<local, outbox>>
          /\ flow' = [flow EXCEPT !.dl = Tail(flow.dl), !.pc = AfterDownloadPut(PutRejects(obj))]
    /\ UNCHANGED <<currentUserId, syncListeners, hooks, listeners, unsubCount, settings,
                   remote, remoteSettings, inbox, handlers>>

\* downloadAllData: the settings document, merged into an existing local record
DownloadSettings ==
    /\ flow.pc = "downloadPut"
    /\ flow.dl = <<>>
    /\ settings' = IF remoteSettings[flow.user] # None /\ settings # None
                   THEN MergedSettings(remoteSettings[flow.user], settings)
                   ELSE settings
    /\ flow' = [flow EXCEPT !.pc = IF flow.caller = "api" THEN "returned" ELSE After("download"),
                            !.dlDone = TRUE]
    /\ ev' = [Step("downloadSettings") EXCEPT !.arg = flow.user,
                  !.applied = remoteSettings[flow.user] # None /\ settings # None]
    /\ UNCHANGED <<currentUserId, syncListeners, hooks, listeners, unsubCount, local, remote,
                   remoteSettings, outbox, inbox, handlers>>

\* uploadAllData: the batch is built; batch.set throws, or the batch awaits its commit
UploadBuild ==
    /\ flow.pc = "upload"
    /\ flow' = [flow EXCEPT !.pc = IF BatchOf(flow.user).throws THEN "failed" ELSE "commit",
                            !.dl = BatchOf(flow.user).sets,
                            !.sdoc = BatchOf(flow.user).sdoc,
                            !.localAt = local,
                            !.upBegan = TRUE,
                            !.inOrder = flow.dlDone]
    /\ ev' = [Step("uploadBuild") EXCEPT !.arg = flow.user, !.applied = ~BatchOf(flow.user).throws]
    /\ UNCHANGED <<currentUserId, syncListeners, hooks, listeners, unsubCount, local,
                   settings, remote, remoteSettings, outbox, inbox, handlers>>

\* the changes a committed batch makes the listeners see
RECURSIVE BatchChanges(_)
BatchChanges(sets) ==
    IF sets = <<>> THEN <<>> ELSE ChangesOf(Head(sets), TRUE) \o BatchChanges(Tail(sets))

\* the data collections after a committed batch
RECURSIVE BatchApplied(_, _)
BatchApplied(r, sets) ==
    IF sets = <<>> THEN r ELSE BatchApplied(Applied(r, Head(sets)), Tail(sets))

\* variant: a failed commit is swallowed and uploadAllData resolves
CommitOutcome_Swallowed(committed) == "resolved"

\* uploadAllData: await batch.commit() - the promise of uploadAllData settles as the commit does
CommitOutcome(committed) == IF committed THEN "resolved" ELSE "rejected"

\* the position of the caller once uploadAllData has settled
Settled(outcome) ==
    IF outcome = "rejected" THEN "failed"
    ELSE IF flow.caller = "api" THEN "returned" ELSE After("upload")

\* uploadAllData: batch.commit() succeeds - every document of the batch is written at once
UploadCommit ==
    /\ flow.pc = "commit"
    /\ BatchChanges(flow.dl) # <<>> => Len(inbox) < MaxQueue
    /\ remote' = BatchApplied(remote, flow.dl)
    /\ remoteSettings' = IF flow.sdoc = None THEN remoteSettings
                         ELSE [remoteSettings EXCEPT ![flow.user] = flow.sdoc]
    /\ inbox' = inbox \o BatchChanges(flow.dl)
    /\ flow' = [flow EXCEPT !.pc = Settled(CommitOutcome(TRUE))]
    /\ ev' = [Step("uploadCommit") EXCEPT !.arg = flow.user, !.applied = TRUE,
                  !.writes = flow.dl, !.rBefore = remote]
    /\ UNCHANGED <<currentUserId, syncListeners, hooks, listeners, unsubCount, local,
                   settings, outbox, handlers>>

\* uploadAllData: batch.commit() fails - no document of the batch is written
UploadCommitFail ==
    /\ flow.pc = "commit"
    /\ flow' = [flow EXCEPT !.pc = Settled(CommitOutcome(FALSE))]
    /\ ev' = [Step("uploadCommitFail") EXCEPT !.arg = flow.user, !.writes = flow.dl,
                  !.rBefore = remote]
    /\ UNCHANGED <<currentUserId, syncListeners, hooks, listeners, unsubCount, local,
                   settings, remote, remoteSettings, outbox, inbox, handlers>>

\* downloadAllData(u) called on its own
CallDownload(u) ==
    /\ flow.pc = "idle"
    /\ flow' = [NoFlow EXCEPT !.pc = "download", !.user = u, !.caller = "api", !.localAt = local]
    /\ ev' = [Step("callDownload") EXCEPT !.arg = u]
    /\ UNCHANGED <<currentUserId, syncListeners, hooks, listeners, unsubCount, local,
                   settings, remote, remoteSettings, outbox, inbox, handlers>>

\* uploadAllData(u) called on its own
CallUpload(u) ==
    /\ flow.pc = "idle"
    /\ flow' = [NoFlow EXCEPT !.pc = "upload", !.user = u, !.caller = "api"]
    /\ ev' = [Step("callUpload") EXCEPT !.arg = u]
    /\ UNCHANGED <<currentUserId, syncListeners, hooks, listeners, unsubCount, local,
                   settings, remote, remoteSettings, outbox, inbox, handlers>>

\* the caller of a bulk function called on its own goes on after the promise settled
Return ==
    /\ flow.caller = "api"
    /\ flow.pc \in {"returned", "failed"}
    /\ flow' = NoFlow
    /\ ev' = Step("return")
    /\ UNCHANGED <<currentUserId, syncListeners, hooks, listeners, unsubCount, local,
                   settings, remote, remoteSettings, outbox, inbox, handlers>>

\* the hook sets registered on a table: startRealtimeSync hooks the tables of Tables only
HooksOn(name) == IF name \in TableSet THEN hooks ELSE <<>>

\* the Remote Writer calls made when db.settings.update stores obj as "user-settings"
SettingsPutCalls(obj) ==
    [i \in 1..Len(HooksOn("settings")) |->
        UpdatingHook(HooksOn("settings")[i], "settings", getObjectDiff(settings, obj),
                     "user-settings", settings)]

\* handleSaveApiKey: db.settings.update("user-settings", { usdaApiKey: apiKey.trim(), ... })
SaveApiKey(k) ==
    /\ settings # None
    /\ LET obj == [settings EXCEPT !.usdaApiKey = k]
       IN /\ Issue(SettingsPutCalls(obj))
          /\ settings' = obj
          /\ ev' = [Step("saveApiKey") EXCEPT !.writes = SettingsPutCalls(obj)]
    /\ UNCHANGED <<currentUserId, syncListeners, hooks, listeners, unsubCount, local,
                   remote, remoteSettings, inbox, handlers, flow>>

\* handleSaveAiConfig: db.settings.update("user-settings", { aiConfig: ... or undefined, ... });
\* Dexie removes a property that is updated to undefined
SaveAiConfig(a) ==
    /\ settings # None
    /\ LET obj == [settings EXCEPT !.aiConfig = a]
       IN /\ Issue(SettingsPutCalls(obj))
          /\ settings' = obj
          /\ ev' = [Step("saveAiConfig") EXCEPT !.writes = SettingsPutCalls(obj)]
    /\ UNCHANGED <<currentUserId, syncListeners, hooks, listeners, unsubCount, local,
                   remote, remoteSettings, inbox, handlers, flow>>

\* handleSignOut: stopRealtimeSync(), then signOut() makes the auth state change to null
SignOut ==
    /\ flow.user # Null
    /\ flow.notify = "none"
    /\ flow.pc \in {"failed", "done"}
    /\ stopRealtimeSync
    /\ flow' = [NoFlow EXCEPT !.notify = Null]

-----------------------------------------------------------------------------
(* The engine driven by arbitrary start / stop calls *)

Init ==
    /\ currentUserId = Null
    /\ syncListeners = <<>>
    /\ hooks = <<>>
    /\ listeners = {}
    /\ unsubCount = [h \in HandleSet |-> 0]
    /\ local = [c \in DataTables |-> [id \in Ids |-> None]]
    /\ settings = None
    /\ remote = [u \in Users |-> [c \in DataTables |-> [id \in Ids |-> None]]]
    /\ remoteSettings = [u \in Users |-> None]
    /\ outbox = <<>>
    /\ inbox = <<>>
    /\ handlers = {}
    /\ flow = NoFlow
    /\ ev = NoEv

Start == \E u \in Users : startRealtimeSync(u) /\ UNCHANGED flow
Stop == stopRealtimeSync /\ UNCHANGED flow
Add == \E c \in DataTables, id \in Ids, obj \in Entities : LocalAdd(c, id, obj)
Update == \E c \in DataTables, id \in Ids, v \in {Str(s) : s \in Vals}, now \in Times :
             LocalUpdate(c, id, v, now)
Delete == \E c \in DataTables, id \in Ids : LocalDelete(c, id)
Other == \E w \in OtherWrites : OtherDeviceWrite(w)
Read == \E i \in DOMAIN inbox : ReaderRead(i)
Write == \E hd \in handlers : ReaderWrite(hd)
Remove == \E i \in DOMAIN inbox : ReaderRemove(i)

\* the Sync Controller under arbitrary start / stop calls and domain writes
Next ==
    \/ Start
    \/ Stop
    \/ Add
    \/ Update
    \/ Delete
    \/ RemoteApply

Spec == Init /\ [][Next]_vars

\* a session of user u1 with the Remote Reader: the device and other devices of u1 write
StartOne == startRealtimeSync("u1") /\ UNCHANGED flow

NextReader ==
    \/ StartOne
    \/ Add
    \/ Update
    \/ Delete
    \/ RemoteApply
    \/ Other
    \/ Read
    \/ Write
    \/ Remove

SpecReader == Init /\ [][NextReader]_vars

\* a device whose session of u1 is live from the start (the state startRealtimeSync("u1")
\* leaves a fresh process in), next to another device of u1: every local mutation is made
\* while the session is active
InitLive ==
    /\ currentUserId = "u1"
    /\ syncListeners = [i \in 1..Len(Tables) |-> <<1, Tables[i]>>]
    /\ hooks = <<"u1">>
    /\ listeners = {<<1, Tables[i]>> : i \in 1..Len(Tables)}
    /\ unsubCount = [h \in HandleSet |-> 0]
    /\ local = [c \in DataTables |-> [id \in Ids |-> None]]
    /\ settings = None
    /\ remote = [u \in Users |-> [c \in DataTables |-> [id \in Ids |-> None]]]
    /\ remoteSettings = [u \in Users |-> None]
    /\ outbox = <<>>
    /\ inbox = <<>>
    /\ handlers = {}
    /\ flow = NoFlow
    /\ ev = NoEv

NextLive ==
    \/ Add
    \/ Update
    \/ Delete
    \/ RemoteApply
    \/ Other
    \/ Read
    \/ Write
    \/ Remove

SpecLive == InitLive /\ [][NextLive]_vars

\* a live session of u1 whose remote writes may fail
NextFail ==
    \/ Add
    \/ Update
    \/ Delete
    \/ RemoteApply
    \/ RemoteFail

SpecFail == InitLive /\ [][NextFail]_vars

\* sessions of u1 whose subscriptions may fail, while another device of u1 writes
Error == \E h \in listeners : ListenerError(h)

NextError ==
    \/ StartOne
    \/ Stop
    \/ Error
    \/ RemoteApply
    \/ Other
    \/ Read
    \/ Write
    \/ Remove

SpecError == Init /\ [][NextError]_vars

\* sessions of u1 that are started and stopped while another device of u1 writes
NextStop ==
    \/ StartOne
    \/ Stop
    \/ RemoteApply
    \/ Other
    \/ Read
    \/ Write
    \/ Remove

SpecStop == Init /\ [][NextStop]_vars

\* the settings page: sign-in, bulk transfer and the live session it leads to.  The
\* account u1 may hold cloud data from another device, the account u2 is new.  Nothing
\* deletes a document here, so no removed change is delivered.
InitSignIn ==
    /\ currentUserId = Null
    /\ syncListeners = <<>>
    /\ hooks = <<>>
    /\ listeners = {}
    /\ unsubCount = [h \in HandleSet |-> 0]
    /\ local \in [DataTables -> [Ids -> Entities \cup {None}]]
    /\ settings = None
    /\ remote \in {r \in [Users -> [DataTables -> [Ids -> Docs \cup {None}]]] :
                      \A c \in DataTables, id \in Ids : r["u2"][c][id] = None}
    /\ remoteSettings = [u \in Users |-> None]
    /\ outbox = <<>>
    /\ inbox = <<>>
    /\ handlers = {}
    /\ flow = NoFlow
    /\ ev = NoEv

HandleSignIn == \E u \in Users : SignIn(u)

NextSignIn ==
    \/ InitializeSettings
    \/ HandleSignIn
    \/ AuthChange
    \/ DownloadFetch
    \/ DownloadFail
    \/ DownloadPut
    \/ DownloadSettings
    \/ UploadBuild
    \/ SignOut
    \/ RemoteApply
    \/ Read
    \/ Write

SpecSignIn == InitSignIn /\ [][NextSignIn]_vars

\* the bulk transfer functions called on their own, next to a live session of u1, on a
\* device whose local tables hold any data and whose settings page may have run.  The
\* account u1 may hold cloud data and a settings document written by another client, the
\* account u2 is new.
CloudSettings ==
    {None,
     [theme |-> Str(2), usdaApiKey |-> Absent, aiConfig |-> Absent],
     [theme |-> Str(2), usdaApiKey |-> Str(2), aiConfig |-> Obj(2)]}

\* what the user of this device enters on the settings page
EnteredKeys == {Str(1)}
EnteredConfigs == {Absent, Obj(1)}

InitDownload ==
    /\ currentUserId = Null
    /\ syncListeners = <<>>
    /\ hooks = <<>>
    /\ listeners = {}
    /\ unsubCount = [h \in HandleSet |-> 0]
    /\ local \in [DataTables -> [Ids -> Entities \cup {None}]]
    /\ settings = None
    /\ remote \in {r \in [Users -> [DataTables -> [Ids -> Docs \cup {None}]]] :
                      \A c \in DataTables, id \in Ids : r["u2"][c][id] = None}
    /\ remoteSettings \in {r \in [Users -> CloudSettings] : r["u2"] = None}
    /\ outbox = <<>>
    /\ inbox = <<>>
    /\ handlers = {}
    /\ flow = NoFlow
    /\ ev = NoEv

HandleSaveApiKey == \E k \in EnteredKeys : SaveApiKey(k)
HandleSaveAiConfig == \E a \in EnteredConfigs : SaveAiConfig(a)
Download == \E u \in Users : CallDownload(u)
Upload == \E u \in Users : CallUpload(u)

NextDownload ==
    \/ InitializeSettings
    \/ HandleSaveApiKey
    \/ HandleSaveAiConfig
    \/ StartOne
    \/ Download
    \/ DownloadFetch
    \/ DownloadFail
    \/ DownloadPut
    \/ DownloadSettings
    \/ Return
    \/ RemoteApply
    \/ Read
    \/ Write

SpecDownload == InitDownload /\ [][NextDownload]_vars

\* downloadAllData and a session of u1 on an account another client has written to: the
\* document of users/u1/foods may be one the local table cannot store
InitSkip ==
    /\ currentUserId = Null
    /\ syncListeners = <<>>
    /\ hooks = <<>>
    /\ listeners = {}
    /\ unsubCount = [h \in HandleSet |-> 0]
    /\ local \in [DataTables -> [Ids -> Entities \cup {None}]]
    /\ settings = None
    /\ remote \in {r \in [Users -> [DataTables -> [Ids -> Docs \cup {None, Malformed}]]] :
                      \A c \in DataTables, id \in Ids : r["u2"][c][id] = None}
    /\ remoteSettings \in {r \in [Users -> CloudSettings] : r["u2"] = None}
    /\ outbox = <<>>
    /\ inbox = <<>>
    /\ handlers = {}
    /\ flow = NoFlow
    /\ ev = NoEv

NextSkip ==
    \/ InitializeSettings
    \/ StartOne
    \/ Download
    \/ DownloadFetch
    \/ DownloadFail
    \/ DownloadPut
    \/ DownloadSettings
    \/ Return
    \/ RemoteApply
    \/ Read
    \/ Write

SpecSkip == InitSkip /\ [][NextSkip]_vars

\* uploadAllData on the same device; no account holds a settings document yet
InitUpload ==
    /\ InitDownload
    /\ remoteSettings = [u \in Users |-> None]

NextUpload ==
    \/ InitializeSettings
    \/ HandleSaveApiKey
    \/ HandleSaveAiConfig
    \/ StartOne
    \/ Upload
    \/ UploadBuild
    \/ UploadCommit
    \/ UploadCommitFail
    \/ Return
    \/ RemoteApply
    \/ Read
    \/ Write

SpecUpload == InitUpload /\ [][NextUpload]_vars

\* the codec applied to entities of the supported shapes: scalars, timestamps, arrays of
\* scalars, timestamps and objects, and nested objects.  A name is any string, so it may
\* be one that matches the timestamp pattern.
CodecNames == {Str(1), Iso(1)}
CodecTags ==
    {Arr(<<>>), Arr(<<Str(1), Str(2)>>), Arr(<<Date(1), Rec([at |-> Date(2), s |-> Str(1)])>>),
     Arr(<<Iso(2)>>)}
CodecNested ==
    {JsNull, Undef,
     Rec([at |-> Date(1), inner |-> Rec([s |-> Str(1), at |-> Date(2)])]),
     Rec([at |-> Date(1), inner |-> Rec([s |-> Iso(2), at |-> Date(2)])])}
CodecInputs ==
    [name : CodecNames, updatedAt : {Date(n) : n \in Times}, tags : CodecTags,
     nested : CodecNested]

InitCodec ==
    /\ currentUserId = Null
    /\ syncListeners = <<>>
    /\ hooks = <<>>
    /\ listeners = {}
    /\ unsubCount = [h \in HandleSet |-> 0]
    /\ local = [c \in DataTables |-> [id \in Ids |-> None]]
    /\ settings = None
    /\ remote = [u \in Users |-> [c \in DataTables |-> [id \in Ids |-> None]]]
    /\ remoteSettings = [u \in Users |-> None]
    /\ outbox = <<>>
    /\ inbox = <<>>
    /\ handlers = {}
    /\ flow = NoFlow
    /\ ev \in {[NoEv EXCEPT !.kind = "entity", !.data = e] : e \in CodecInputs}

Frame ==
    UNCHANGED <<currentUserId, syncListeners, hooks, listeners, unsubCount, local, settings,
                remote, remoteSettings, outbox, inbox, handlers, flow>>

\* serializeForFirestore(e)
Encode ==
    /\ ev.kind = "entity"
    /\ ev' = [ev EXCEPT !.kind = "encoded", !.wire = serializeForFirestore(ev.data)]
    /\ Frame

\* deserializeFromFirestore of the encoded entity
Decode ==
    /\ ev.kind = "encoded"
    /\ ev' = [ev EXCEPT !.kind = "decoded", !.back = deserializeFromFirestore(ev.wire)]
    /\ Frame

NextCodec ==
    \/ Encode
    \/ Decode

SpecCodec == InitCodec /\ [][NextCodec]_vars

TypeOK ==
    /\ currentUserId \in Users \cup {Null}
    /\ listeners \subseteq HandleSet
    /\ Len(hooks) <= MaxStarts
    /\ \A c \in DataTables, id \in Ids : local[c][id] \in Entities \cup {None}
    /\ \A u \in Users, c \in DataTables, id \in Ids :
          remote[u][c][id] \in Docs \cup {None, Malformed}

-----------------------------------------------------------------------------
(* Claims about the Sync Controller and Local Change Capture (Spec) *)

LocalKinds == {"localAdd", "localUpdate", "localDelete"}

\* C1: a create, update or delete applied to the local store while no session is bound
\* (isSyncing() is false) makes no call of the Remote Writer.
C1_NoForwardWhenIdle ==
    (ev.kind \in LocalKinds /\ ev.bound = Null) => ev.writes = <<>>

\* C5: every write Local Change Capture issues while a session is bound is addressed to
\* the namespace of the user scope bound at that moment.
C5_WritesToBoundScope ==
    (ev.kind \in LocalKinds /\ ev.bound # Null) =>
        \A i \in DOMAIN ev.writes : ev.writes[i].user = ev.bound

C7_SwitchTearsDownPrior ==
    (ev.kind = "start" /\ ev.bound # Null /\ ev.arg # ev.bound) =>
        /\ currentUserId = ev.arg
        /\ \A h \in listeners : hooks[h[1]] = ev.arg
        /\ \A i \in DOMAIN hooks : hooks[i] = ev.arg

\* C8: after stopRealtimeSync no listener is registered, the handle list is empty and no
\* scope is bound; a call made while idle changes nothing and calls no handle; no handle
\* is ever called twice.
C8_StopIdempotent ==
    /\ \A h \in HandleSet : unsubCount[h] <= 1
    /\ ev.kind = "stop" =>
          /\ listeners = {}
          /\ syncListeners = <<>>
          /\ ~isSyncing
          /\ Range(ev.preListeners) = Range(ev.unsubs)
          /\ ev.bound = Null =>
                /\ ev.unsubs = <<>>
                /\ ev.preLive = listeners
                /\ ev.preListeners = syncListeners

\* stopRealtimeSync has run while idle, after a session was stopped
C8_Witness ==
    /\ ev.kind = "stop"
    /\ ev.bound = Null
    /\ \E h \in HandleSet : unsubCount[h] = 1

\* the encoding of an entity: the same properties, a timestamp as its ISO string
Encoded(e) ==
    [v |-> e.v, updatedAt |-> IF IsDate(e.updatedAt) THEN Iso(e.updatedAt[2]) ELSE e.updatedAt]

\* C17: a create, update or delete applied to a synchronized table while a session is
\* bound hands the remote store, under the bound scope and the entity's id, an upsert of
\* the encoding of the whole entity the table now holds, or a delete.
C17_ForwardsFullEntity ==
    (ev.kind \in LocalKinds /\ ev.bound # Null) =>
        \E i \in DOMAIN Accepted(ev.writes) :
            LET w == Accepted(ev.writes)[i]
            IN /\ w.user = ev.bound
               /\ w.coll = ev.c
               /\ w.id = ev.id
               /\ IF ev.kind = "localDelete" THEN w.op = "delete"
                  ELSE w.op = "set" /\ w.doc = Encoded(local[ev.c][ev.id])

\* C25: at most one hook set is registered at any time, and a create, update or delete
\* applied while a session is bound makes exactly one call of the Remote Writer.
C25_ExactlyOneWritePerMutation ==
    /\ Len(hooks) <= 1
    /\ (ev.kind \in LocalKinds /\ ev.bound # Null) => Len(ev.writes) = 1

-----------------------------------------------------------------------------
(* Claims about the Remote Reader (SpecReader) *)

ReaderKinds == {"readerWrite", "readerRemove"}

\* C2: a put or delete the Remote Reader applies to the local store makes no call of the
\* Remote Writer.
C2_ReaderWritesAreSilent ==
    (ev.kind \in ReaderKinds /\ ev.applied) => ev.writes = <<>>

\* C3: processing a change that stems from this device's own write makes no call of the
\* Remote Writer.
C3_NoEcho ==
    (ev.kind \in ReaderKinds /\ ev.own) => ev.writes = <<>>

\* the timestamp of an entity as a number, 0 when it has none
Stamp(e) == IF e.updatedAt = Absent THEN 0 ELSE e.updatedAt[2]

\* C4: when the handler of an added or modified change finishes and the local copy is the
\* one it read, the local store holds the decoded remote version if there was no local
\* copy or the remote timestamp is strictly newer (a missing timestamp being older than
\* any timestamp), and the unchanged local copy otherwise.
C4_LastWriteWins ==
    (ev.kind = "readerWrite" /\ ev.read = ev.before) =>
        local[ev.c][ev.id] =
            IF ev.before = None \/ Stamp(ev.data) > Stamp(ev.before) THEN ev.data ELSE ev.before

\* a handler has replaced an existing local copy by a different, newer remote version
C4_Witness ==
    /\ ev.kind = "readerWrite"
    /\ ev.read = ev.before
    /\ ev.before # None
    /\ ev.data # ev.before
    /\ local[ev.c][ev.id] = ev.data

\* C13: when the handler of a removed change for id has run, the local table holds no
\* entity under id, whatever the updatedAt of the local copy was.
C13_RemovedDeletesLocal ==
    ev.kind = "readerRemove" => local[ev.c][ev.id] = None

\* a removed change has deleted a local copy that was newer than the removed document
C13_Witness ==
    /\ ev.kind = "readerRemove"
    /\ ev.before # None
    /\ Stamp(ev.before) > Stamp(ev.data)
    /\ local[ev.c][ev.id] = None

\* C19: applying a Remote Writer call (an upsert or a delete, any scope and id) a second
\* time leaves the remote store as the first application left it, and a call that
\* reaches a path which already holds its outcome (the same document, or no document
\* for a delete) leaves the remote store unchanged.
C19_WriterIdempotent ==
    /\ \A w \in OtherWrites : Applied(Applied(remote, w), w) = Applied(remote, w)
    /\ (ev.kind = "remoteApply" /\ ev.before = ev.data) =>
          remote[ev.arg][ev.c][ev.id] = ev.before

\* the same upsert has been applied to a path that already held its document
C19_Witness ==
    /\ ev.kind = "remoteApply"
    /\ ev.writes[1].op = "set"
    /\ ev.before = ev.data
    /\ remote[ev.arg][ev.c][ev.id] = ev.data

\* C21: whenever the Remote Reader replaces an existing local entity by a remote version,
\* the remote updatedAt is strictly newer than that of the local entity the table holds at
\* the moment of the put, however domain writes interleave with the suspended handler.
C21_OverwriteOnlyByNewer ==
    (ev.kind = "readerWrite" /\ ev.applied /\ ev.before # None) =>
        Stamp(ev.data) > Stamp(ev.before)

\* C22: the handler of a change does not put its version of a document once the removed
\* change delivered after it for the same document has deleted the local copy: after a
\* modified change followed by a removed change the table holds no entity under the id.
C22_EffectsInDeliveryOrder ==
    (ev.kind = "readerWrite" /\ ev.overtaken) => (~ev.applied /\ local[ev.c][ev.id] = None)

-----------------------------------------------------------------------------
(* Claims about a live session next to another device (SpecLive) *)

\* no write of this device is in flight, no change notification is queued and no change
\* handler is suspended
Quiescent == outbox = <<>> /\ inbox = <<>> /\ handlers = {}

\* C23: once every outstanding remote write and change notification has been delivered
\* and processed, the local copy of every entity equals the remote document of the bound
\* scope for that id: present on both sides with the same content, or absent on both.
C23_ConvergesWhenQuiescent ==
    Quiescent =>
        \A c \in DataTables, id \in Ids :
            IF remote["u1"][c][id] = None THEN local[c][id] = None
            ELSE local[c][id] = deserializeFromFirestore(remote["u1"][c][id])

-----------------------------------------------------------------------------
(* Claims about stopping a session with changes in flight (SpecStop) *)

\* C24: a put or delete of the Remote Reader is made only while the subscription that
\* delivered the change is still registered: after stopRealtimeSync has returned, a handler
\* that was suspended on its local read applies nothing.
C24_NoApplyAfterStop ==
    (ev.kind \in ReaderKinds /\ ev.applied) => ev.live

-----------------------------------------------------------------------------
(* Claims about failing remote writes (SpecFail) *)

\* C27: a local mutation is in the local store as soon as its step is done, whatever
\* becomes of its remote write; when a remote write fails, the local store, the remote
\* store and the session are as they were; and a local mutation made while the session is
\* bound calls the Remote Writer, whether or not an earlier write has failed.
C27_FireAndForget ==
    /\ ev.kind \in {"localAdd", "localUpdate"} => local[ev.c][ev.id] = ev.data
    /\ ev.kind = "localDelete" => local[ev.c][ev.id] = None
    /\ ev.kind = "remoteFail" =>
          /\ local[ev.c][ev.id] = ev.before
          /\ remote = ev.rBefore
          /\ currentUserId = ev.bound
    /\ (ev.kind \in LocalKinds /\ ev.bound # Null) => Len(ev.writes) >= 1

\* after a remote write has failed, a later local mutation is in the local store while
\* the write it was forwarded as is still in flight
C27_Witness ==
    /\ ev.kind \in {"localAdd", "localUpdate"}
    /\ ev.failures
    /\ ev.bound # Null
    /\ outbox # <<>>
    /\ Head(outbox).doc = Encoded(ev.data)
    /\ local[ev.c][ev.id] = ev.data
    /\ remote[ev.bound][ev.c][ev.id] # Head(outbox).doc

-----------------------------------------------------------------------------
(* Claims about failing subscriptions (SpecError) *)

-----------------------------------------------------------------------------
(* Claims about the sign-in flow (SpecSignIn) *)

\* C9: a live session is bound only once the bulk download and the bulk upload of the
\* sign-in have both completed.
C9_LiveSyncAfterBulk ==
    isSyncing => flow.pc = "done"

\* C10: the bulk upload of a sign-in begins only after its bulk download has completed,
\* and once it has begun every document the user's remote store held before the sign-in
\* still holds the same content.
C10_DownloadBeforeUpload ==
    flow.upBegan =>
        /\ flow.inOrder
        /\ \A c \in DataTables, id \in Ids :
              flow.before[c][id] # None => remote[flow.user][c][id] = flow.before[c][id]

\* the upload has begun for an account whose cloud document differed from the device's copy
C10_Witness ==
    /\ flow.upBegan
    /\ flow.stale
    /\ \E c \in DataTables, id \in Ids :
          /\ flow.before[c][id] # None
          /\ local[c][id] = deserializeFromFirestore(flow.before[c][id])

-----------------------------------------------------------------------------
(* Claims about the bulk upload (SpecUpload) *)

\* a settings record or document that carries a sensitive field with a value
Populated(d) ==
    /\ d # None
    /\ \/ d.usdaApiKey \notin {Absent, Undef}
       \/ d.aiConfig \notin {Absent, Undef}

\* C11: no settings document that is in the remote store, on its way there in a Remote
\* Writer call, or set on an upload batch carries a value for usdaApiKey or aiConfig.
C11_SensitiveNeverUploaded ==
    /\ \A u \in Users : ~Populated(remoteSettings[u])
    /\ ~Populated(flow.sdoc)
    /\ \A i \in DOMAIN outbox : outbox[i].coll = "settings" => ~Populated(outbox[i].doc)

\* uploadAllData has built its batch on a device whose settings record holds an API key,
\* while a session was live
C11_Witness ==
    /\ ev.kind = "uploadBuild"
    /\ Populated(settings)
    /\ isSyncing

\* C15: when the batch of uploadAllData(u) has been committed and the local tables are as
\* the upload read them, users/u/c/id holds, for every local entity, the entity with its
\* timestamp in ISO string form and every other property unchanged.
C15_UploadMirrorsLocal ==
    (ev.kind = "uploadCommit" /\ flow.localAt = local) =>
        \A c \in DataTables, id \in Ids :
            local[c][id] # None => remote[ev.arg][c][id] = Encoded(local[c][id])

\* a committed upload has replaced a different cloud document by a local entity that
\* carries a timestamp
C15_Witness ==
    /\ ev.kind = "uploadCommit"
    /\ flow.localAt = local
    /\ \E c \in DataTables, id \in Ids :
          /\ local[c][id] # None
          /\ IsDate(local[c][id].updatedAt)
          /\ ev.rBefore[ev.arg][c][id] # None
          /\ ev.rBefore[ev.arg][c][id] # remote[ev.arg][c][id]
          /\ IsIso(remote[ev.arg][c][id].updatedAt)

\* C16: when the commit of the batch fails, the remote store is as it was before the
\* attempt and uploadAllData rejects.
C16_FailedCommitChangesNothing ==
    ev.kind = "uploadCommitFail" =>
        /\ remote = ev.rBefore
        /\ remoteSettings = ev.rsBefore
        /\ flow.pc = "failed"

\* the commit of a batch that would have changed a cloud document has failed
C16_Witness ==
    /\ ev.kind = "uploadCommitFail"
    /\ \E i \in DOMAIN ev.writes :
          remote[ev.writes[i].user][ev.writes[i].coll][ev.writes[i].id] # ev.writes[i].doc

-----------------------------------------------------------------------------
(* Claims about the bulk download (SpecDownload) *)

\* the values of the sensitive fields of a settings record
Sensitive(s) == <<Prop(s.usdaApiKey), Prop(s.aiConfig)>>

AppliesRemoteData == {"downloadPut", "downloadSettings", "readerRead", "readerWrite"}

C14_DownloadUpsertsAll ==
    ev.kind = "downloadSettings" =>
        \A c \in DataTables, id \in Ids :
            remote[ev.arg][c][id] # None =>
                local[c][id] = deserializeFromFirestore(remote[ev.arg][c][id])

\* a completed download has replaced a local entity by an older cloud version
C14_Witness ==
    /\ ev.kind = "downloadSettings"
    /\ \E c \in DataTables, id \in Ids :
          /\ flow.localAt[c][id] # None
          /\ remote[ev.arg][c][id] # None
          /\ IsDate(flow.localAt[c][id].updatedAt)
          /\ IsIso(remote[ev.arg][c][id].updatedAt)
          /\ flow.localAt[c][id].updatedAt[2] > remote[ev.arg][c][id].updatedAt[2]
          /\ local[c][id] = deserializeFromFirestore(remote[ev.arg][c][id])

\* C26: a put of downloadAllData into a local table makes no call of the Remote Writer,
\* whether or not a session is live.
C26_DownloadWritesNothingRemote ==
    ev.kind = "downloadPut" => ev.writes = <<>>

\* C28: a document whose put rejects is skipped and nothing else is given up: the bulk
\* download goes on with the documents and collections that follow it, and the handler of
\* the change that carries it applies nothing while other handlers are not affected.
C28_BadDocumentIsSkipped ==
    /\ (ev.kind = "downloadPut" /\ PutRejects(ev.data)) =>
          /\ flow.pc = "downloadPut"
          /\ local[ev.c][ev.id] = ev.before
    /\ (ev.kind = "readerWrite" /\ PutRejects(ev.data)) =>
          /\ ~ev.applied
          /\ local[ev.c][ev.id] = ev.before

\* C30: when downloadAllData(u) has completed and users/u/settings holds a document, the
\* local settings record holds the document's non-sensitive fields, with usdaApiKey and
\* aiConfig as the previous local record had them, or without them when there was none.
C30_SettingsMergedAfterDownload ==
    (ev.kind = "downloadSettings" /\ remoteSettings[ev.arg] # None) =>
        /\ settings # None
        /\ settings.theme = deserializeFromFirestore(remoteSettings[ev.arg]).theme
        /\ Sensitive(settings) =
              IF ev.sBefore = None THEN <<Undef, Undef>> ELSE Sensitive(ev.sBefore)

SettingsSaves == {"saveApiKey", "saveAiConfig"}

\* C18: while a session is bound, the settings table is hooked and the settings
\* collection of the bound scope has a live listener like every table of Tables, and a
\* save of the settings record calls the Remote Writer.
C18_SettingsLiveSynced ==
    /\ isSyncing =>
          /\ \A i \in DOMAIN Tables : \E h \in listeners : h[2] = Tables[i]
          /\ \E h \in listeners : h[2] = "settings"
          /\ HooksOn("settings") # <<>>
    /\ (ev.kind \in SettingsSaves /\ ev.bound # Null) => ev.writes # <<>>

-----------------------------------------------------------------------------
(* Claims about the Codec (SpecCodec) *)

RECURSIVE HasTimestampLikeString(_)
\* some string in the object, at any depth, matches the timestamp pattern
HasTimestampLikeString(data) ==
    \E k \in DOMAIN data :
        \/ IsIso(data[k])
        \/ (IsArr(data[k]) \/ IsRec(data[k])) /\ HasTimestampLikeString(data[k][2])

RECURSIVE HasDate(_)
\* some Date in the object, at any depth
HasDate(data) ==
    \E k \in DOMAIN data :
        \/ IsDate(data[k])
        \/ (IsArr(data[k]) \/ IsRec(data[k])) /\ HasDate(data[k][2])

\* C20 as stated: decoding the encoding of an entity of a supported shape gives the entity.
C20_RoundTrip ==
    ev.kind = "decoded" => ev.back = ev.data

\* C20 amended: decoding the encoding of an entity of a supported shape gives the entity,
\* provided no string in the entity matches the timestamp pattern.
C20_RoundTripWithoutTimestampLikeStrings ==
    (ev.kind = "decoded" /\ ~HasTimestampLikeString(ev.data)) => ev.back = ev.data

\* an entity with timestamps inside an array and inside a nested object of a nested
\* object has been encoded into strings and decoded back
C20_Witness ==
    /\ ev.kind = "decoded"
    /\ ~HasTimestampLikeString(ev.data)
    /\ IsArr(ev.data.tags) /\ HasDate(ev.data.tags[2])
    /\ IsRec(ev.data.nested) /\ HasDate(ev.data.nested[2].inner[2])
    /\ ~HasDate(ev.wire)
    /\ ev.back = ev.data

====
